---- MODULE Spec2Model ----
(***************************************************************************)
(* jstatmon: one pass of JStatmonClient.run() (src/jstatmon/client.py).    *)
(*                                                                         *)
(* The pass is single threaded.  Its state is the position of run() in its *)
(* loops, the locals of run() and of _jstat_details(), and a history of    *)
(* what the pass did to the outside world: the subprocesses it started and *)
(* the records it handed to the logger.  The outside world (which tools    *)
(* are installed, what pgrep, ps and jstat print, which accounts exist,    *)
(* whether the kernel lets the child change identity) is chosen            *)
(* nondeterministically from small sets.                                   *)
(*                                                                         *)
(* Text is modelled at the granularity the code works at: a captured       *)
(* standard output is the sequence of its lines, a jstat line is the       *)
(* sequence of its whitespace separated tokens, and a metric token         *)
(* 'key=value' is the string the code formats.                             *)
(***************************************************************************)
EXTENDS Integers, Sequences, FiniteSets, TLC

VARIABLES
    pc,          \* where run() is: "start", "inspect", "details", "option",
                 \* "emit", "done" (returned) or "raised" (left by an exception)
    pids,        \* run(): the value returned by _get_java_pids()
    pidIdx,      \* run(): position of `for pid in pids`
    pid_cmd,     \* run(): the list of (pid, command, user) tuples
    pcIdx,       \* run(): position of `for pc in pid_cmd`
    optIdx,      \* _jstat_details(): position of `for option in [...]`
    jstat_executable, \* _jstat_details(): the located jstat
    stats,       \* _jstat_details(): the list being built, then run()'s `metrics`
    metIdx,      \* run(): position of `for metric in metrics`
    output,      \* _jstat_details(): lines of the last stripped jstat output
    titles,      \* _jstat_details(): `titles` of the last mapped category
    values_all,  \* _jstat_details(): `values_all` of the last mapped category
    raised,      \* the exception that left run(), "" if none
    history      \* subprocesses started and log records written, in order

vars == <<pc, pids, pidIdx, pid_cmd, pcIdx, optIdx, jstat_executable, stats,
          metIdx, output, titles, values_all, raised, history>>

(***************************************************************************)
(* Bounds of the model.                                                    *)
(***************************************************************************)
\* the most Java processes pgrep reports
MaxPids == 2

(***************************************************************************)
(* Python values.                                                          *)
(***************************************************************************)
\* None, and a value that is not None; `val` keeps one type per variable.
None == [none |-> TRUE, val |-> <<>>]
NoneStr == [none |-> TRUE, val |-> ""]
Some(v) == [none |-> FALSE, val |-> v]

\* truth value of a list or tuple (or None): empty and None are false
TruthySeq(o) == ~o.none /\ Len(o.val) # 0
\* truth value of a str (or None)
TruthyStr(o) == ~o.none /\ o.val # ""

RECURSIVE DropLeading(_, _)
DropLeading(lines, blank) ==
    IF lines # <<>> /\ Head(lines) = blank
    THEN DropLeading(Tail(lines), blank) ELSE lines

RECURSIVE DropTrailing(_, _)
DropTrailing(lines, blank) ==
    IF lines # <<>> /\ lines[Len(lines)] = blank
    THEN DropTrailing(SubSeq(lines, 1, Len(lines) - 1), blank) ELSE lines

\* stdout.strip().split('\n') on a text given as its lines: strip() removes
\* the blank lines at both ends, split('\n') of what is left yields its
\* lines, and of the empty text yields one blank line ([''] in Python).
StripSplit(lines, blank) ==
    LET kept == DropTrailing(DropLeading(lines, blank), blank)
    IN  IF kept = <<>> THEN <<blank>> ELSE kept

\* shlex.split of a command line formatted from words without blanks or
\* quotes: an empty word leaves no argument
ShlexSplit(words) == SelectSeq(words, LAMBDA w : w # "")

RECURSIVE Join(_, _)
\* sep.join(tokens)
Join(sep, tokens) ==
    IF tokens = <<>> THEN ""
    ELSE IF Len(tokens) = 1 THEN tokens[1]
    ELSE tokens[1] \o sep \o Join(sep, Tail(tokens))

(***************************************************************************)
(* Metric schema (JStatmonClient.__init__).                                *)
(***************************************************************************)
environment == "prod"

metric_maps_gc ==
    [S0C |-> "current_survivor_space_0_capacity_kB",
     S1C |-> "current_survivor_space_1_capacity_kB",
     S0U |-> "survivor_space_0_utilization_kB",
     S1U |-> "survivor_space_1_utilization_kB",
     EC |-> "current_eden_space_capacity_kB",
     EU |-> "eden_space_utilization_kB",
     OC |-> "current_old_space_capacity_kB",
     OU |-> "old_space_utilization_kB",
     MC |-> "metaspace_capacity_kB",
     MU |-> "metaspace_utilization_kB",
     CCSC |-> "compressed_class_space_capacity_kB",
     CCSU |-> "compressed_class_space_utilization_kB",
     PC |-> "current_permanent_space_capacity_kB",
     PU |-> "permanent_space_utilization_kB",
     YGC |-> "number_of_young_generation_GC_events",
     YGCT |-> "young_generation_garbage_collection_time",
     FGC |-> "number_of_stop_the_world_events",
     FGCT |-> "full_garbage_collection_time",
     GCT |-> "total_garbage_collection_time"]

metric_maps_gccapacity ==
    [NGCMN |-> "minimum_new_generation_capacity_kB",
     NGCMX |-> "maximum_new_generation_capacity_kB",
     NGC |-> "current_new_generation_capacity_kB",
     S0C |-> "current_survivor_space_0_capacity_kB",
     S1C |-> "current_survivor_space_1_capacity_kB",
     EC |-> "current_eden_space_capacity_kB",
     OGCMN |-> "minimum_old_generation_capacity_kB",
     OGCMX |-> "maximum_old_generation_capacity_kB",
     OGC |-> "current_old_generation_capacity_kB",
     OC |-> "current_old_space_capacity_kB",
     MCMN |-> "minimum_metaspace_capacity_kB",
     MCMX |-> "maximum_metaspace_capacity_kB",
     MC |-> "metaspace_capacity_kB",
     CCSMN |-> "compressed_class_space_minimum_capacity_kB",
     CCSMX |-> "compressed_class_space_maximum_capacity_kB",
     CCSC |-> "compressed_class_space_capacity_kB",
     YGC |-> "number_of_young_generation_GC_events",
     FGC |-> "number_of_stop_the_world_events"]

metric_maps_gccause ==
    [LGCC |-> "cause_of_last_garbage_collection",
     GCC |-> "cause_of_current_garbage_collection"]

metric_maps_gcnew ==
    [S0C |-> "current_survivor_space_0_capacity_kB",
     S1C |-> "current_survivor_space_1_capacity_kB",
     S0U |-> "survivor_space_0_utilization_kB",
     S1U |-> "survivor_space_1_utilization_kB",
     TT |-> "tenuring_threshold",
     MTT |-> "maximum_tenuring_threshold",
     DSS |-> "desired_survivor_size_kB",
     EC |-> "current_eden_space_capacity_kB",
     EU |-> "eden_space_utilization_kB",
     YGC |-> "number_of_young_generation_GC_events",
     YGCT |-> "young_generation_garbage_collection_time"]

metric_maps_compiler ==
    [Compiled |-> "number_of_compilation_tasks_performed",
     Failed |-> "number_of_compilation_tasks_failed",
     Invalid |-> "number_of_compilation_tasks_that_were_invalidated",
     Time |-> "time_spent_performing_compilation_tasks",
     FailedType |-> "compile_type_of_the_last_failed_compilation",
     FailedMethod |-> "class_name_and_method_of_the_last_failed_compilation"]

metric_maps_class ==
    [Loaded |-> "number_of_classes_loaded",
     Bytes_column2 |-> "number_of_kBs_loaded",
     Unloaded |-> "number_of_classes_unloaded",
     Bytes_column4 |-> "number_of_kBs_unloaded",
     Time |-> "time_spent_performing_class_loading_and_unloading_operations"]

\* Options with a fault: two categories in the wrong order
OptionsCompilerBeforeGcnew ==
    <<"-gc", "-gccapacity", "-compiler", "-gcnew", "-class">>

\* the category list of `for option in [...]`
Options == <<"-gc", "-gccapacity", "-gcnew", "-compiler", "-class">>

\* the if/elif chain that selects metric_maps for an option
MetricMapsOf(option) ==
    CASE option = "-gc" -> metric_maps_gc
      [] option = "-gccapacity" -> metric_maps_gccapacity
      [] option = "-gcnew" -> metric_maps_gcnew
      [] option = "-compiler" -> metric_maps_compiler
      [] option = "-gccause" -> metric_maps_gccause
      [] option = "-class" -> metric_maps_class

\* option[1:], the option without its first character
OptionTail(option) ==
    CHOOSE s \in {"gc", "gccapacity", "gcnew", "compiler", "gccause", "class"} :
        "-" \o s = option

(***************************************************************************)
(* The outside world.                                                      *)
(***************************************************************************)
\* _which(program): the located path or None.  Nothing is cached, so every
\* call may find the tool or not.
WhichResults(program) == {NoneStr, Some("/usr/bin/" \o program)}

\* the i-th PID token pgrep may print
PidToken(i) == ToString(1233 + i)

RECURSIVE Ascending(_)
\* the members of a set of numbers, smallest first
Ascending(S) ==
    IF S = {} THEN <<>>
    ELSE LET m == CHOOSE x \in S : \A y \in S : x <= y
         IN  <<m>> \o Ascending(S \ {m})

\* what `pgrep java` captures: one line per matching process, in ascending
\* PID order, nothing at all when no process matches
PgrepResults ==
    { [stdout |-> [i \in DOMAIN Ascending(S) |-> PidToken(Ascending(S)[i])],
       stderr |-> ""] : S \in SUBSET (1 .. MaxPids) }

\* what the two `ps -p <pid> -o ...=` calls capture (already stripped): a
\* live process of a known account, a live process whose account is gone
\* (ps prints the numeric uid), a process that has exited (nothing), and,
\* for an empty PID token, the usage error of ps
PsResults(pid) ==
    IF pid = ""
    THEN {[command |-> "", user |-> "", stderr |-> "error: list of process IDs must follow -p"]}
    ELSE {[command |-> "java", user |-> "app", stderr |-> ""],
          [command |-> "java", user |-> "4242", stderr |-> ""],
          [command |-> "", user |-> "", stderr |-> ""]}

\* the password database read by getpwnam
Passwd == [app |-> [pw_uid |-> 1001, pw_gid |-> 500]]

\* getpwnam(name) raises KeyError for a name that has no entry
GetpwnamRaises(name) == name \notin DOMAIN Passwd
Getpwnam(name) == Passwd[name]

\* the value printed in column i of a jstat values row
ValueToken(i) == ToString(100 + i)
ValuesRow(n) == [i \in 1 .. n |-> ValueToken(i)]

\* the header row jstat prints for an option
DocumentedHeader(option) ==
    CASE option = "-gc" ->
           <<"S0C", "S1C", "S0U", "S1U", "EC", "EU", "OC", "OU", "MC", "MU",
             "CCSC", "CCSU", "PC", "PU", "YGC", "YGCT", "FGC", "FGCT", "GCT">>
      [] option = "-gccapacity" ->
           <<"NGCMN", "NGCMX", "NGC", "S0C", "S1C", "EC", "OGCMN", "OGCMX",
             "OGC", "OC", "MCMN", "MCMX", "MC", "CCSMN", "CCSMX", "CCSC",
             "YGC", "FGC">>
      [] option = "-gcnew" ->
           <<"S0C", "S1C", "S0U", "S1U", "TT", "MTT", "DSS", "EC", "EU",
             "YGC", "YGCT">>
      [] option = "-compiler" ->
           <<"Compiled", "Failed", "Invalid", "Time", "FailedType",
             "FailedMethod">>
      [] option = "-class" ->
           <<"Loaded", "Bytes", "Unloaded", "Bytes", "Time">>

\* header rows tried per option: the documented one, and for some options
\* a shorter one and one with a column the schema does not know
HeaderRows(option) ==
    {DocumentedHeader(option)}
    \cup (CASE option = "-gc" -> {<<"S0C", "S1C", "EC", "OC">>, <<"S0C", "XX", "EC">>}
            [] option = "-class" -> {<<"Loaded", "Bytes", "Unloaded">>}
            [] OTHER -> {})

\* a captured jstat run
JstatResult(stdout, stderr) == [stdout |-> stdout, stderr |-> stderr]

\* what `jstat <option> <pid>` captures, standard output as its lines and
\* each line as its tokens: a header row and a values row of the same
\* length (once preceded by a blank line, once with a complaint on standard
\* error), a values row one token short, a header row alone, and nothing but
\* a complaint on standard error
JstatResults(option) ==
    UNION { { JstatResult(<<h, ValuesRow(Len(h))>>, ""),
              JstatResult(<<h, ValuesRow(Len(h) - 1)>>, "") }
            : h \in HeaderRows(option) }
    \cup (CASE option = "-gc" ->
                 {JstatResult(<< <<>>, <<"S0C", "S1C", "EC", "OC">>, ValuesRow(4) >>, "")}
            [] option = "-gccapacity" ->
                 {JstatResult(<<DocumentedHeader(option),
                                ValuesRow(Len(DocumentedHeader(option)))>>,
                              "warning")}
            [] option = "-compiler" ->
                 {JstatResult(<<DocumentedHeader(option)>>, "")}
            [] OTHER -> {})
    \cup {JstatResult(<<>>, "not found")}

(***************************************************************************)
(* History of effects.                                                     *)
(***************************************************************************)
\* a record handed to the logger at a level above debug
LogEvt(level, msg, tokens) ==
    [kind |-> "log", level |-> level, msg |-> msg, tokens |-> tokens,
     argv |-> <<>>, calls |-> <<>>, executed |-> FALSE, user |-> ""]

\* a subprocess started with Popen: its arguments, the calls its preexec_fn
\* made in the child before the exec, whether the tool was executed, and
\* the owner the subprocess was started for
PopenEvt(argv, calls, executed, user) ==
    [kind |-> "popen", level |-> "", msg |-> "", tokens |-> <<>>,
     argv |-> argv, calls |-> calls, executed |-> executed, user |-> user]

\* `if stderr: self.logger.error(stderr)`
StderrLog(stderr) ==
    IF stderr # "" THEN <<LogEvt("ERROR", stderr, <<>>)>> ELSE <<>>

(***************************************************************************)
(* _demote and the parsing and mapping steps of _jstat_details.            *)
(***************************************************************************)
\* Demote with a fault: the user id is changed first
DemoteUserFirst(user_uid, user_gid) ==
    << <<"setuid", user_uid>>, <<"setgid", user_gid>> >>

\* the calls made by the function _demote(user_uid, user_gid) returns
Demote(user_uid, user_gid) ==
    << <<"setgid", user_gid>>, <<"setuid", user_uid>> >>

\* Python indexing, from 0
At(seq, i) == seq[i + 1]
IndexError(seq, i) == i >= Len(seq)
SetAt(seq, i, v) == [seq EXCEPT ![i + 1] = v]

\* output.split("\n") of the stripped standard output
OutputLines(stdout) == StripSplit(stdout, <<>>)

\* RewriteTitles with a fault: the columns counted from 1
RewriteTitlesCountedFromOne(option, ttl) ==
    IF option = "-class"
    THEN SetAt(SetAt(ttl, 2, "Bytes_column2"), 4, "Bytes_column4")
    ELSE ttl

\* the rewrite of the "double Bytes" header of -class
RewriteTitles(option, ttl) ==
    IF option = "-class"
    THEN SetAt(SetAt(ttl, 1, "Bytes_column2"), 3, "Bytes_column4")
    ELSE ttl

\* the six context tokens every metrics list starts with
ContextTokens(option, tuple) ==
    <<"application=jstatmon",
      "environment=" \o environment,
      "option=" \o option,
      "user=" \o At(tuple, 2),
      "pid=" \o At(tuple, 0),
      "command=" \o At(tuple, 1)>>

RECURSIVE MappedTokensNextValue(_, _, _, _)
\* MappedTokens with a fault: each mapped title takes the next unused value,
\* so a title the mapping does not know shifts the values after it
MappedTokensNextValue(option, ttl, vals, position) ==
    IF position >= Len(ttl) THEN <<>>
    ELSE IF At(ttl, position) \in DOMAIN MetricMapsOf(option)
         THEN <<OptionTail(option) \o "_"
                  \o MetricMapsOf(option)[At(ttl, position)]
                  \o "=" \o Head(vals)>>
              \o MappedTokensNextValue(option, ttl, Tail(vals), position + 1)
         ELSE MappedTokensNextValue(option, ttl, vals, position + 1)

RECURSIVE MappedTokens(_, _, _, _)
\* the tokens appended by `for position, title in enumerate(titles)`, from
\* `position` on
MappedTokens(option, ttl, vals, position) ==
    IF position >= Len(ttl) THEN <<>>
    ELSE (IF At(ttl, position) \in DOMAIN MetricMapsOf(option)
          THEN <<OptionTail(option) \o "_"
                   \o MetricMapsOf(option)[At(ttl, position)]
                   \o "=" \o At(vals, position)>>
          ELSE <<>>)
         \o MappedTokens(option, ttl, vals, position + 1)

RECURSIVE UnmappedWarnings(_, _, _)
\* the warnings logged by the same loop (the message is abridged: the code
\* also prints the whole mapping)
UnmappedWarnings(option, ttl, position) ==
    IF position >= Len(ttl) THEN <<>>
    ELSE (IF At(ttl, position) \in DOMAIN MetricMapsOf(option)
          THEN <<>>
          ELSE <<LogEvt("WARNING",
                        "application=jstatmon environment=" \o environment
                          \o " msg=item not found in metric map option="
                          \o option \o " title=" \o At(ttl, position), <<>>)>>)
         \o UnmappedWarnings(option, ttl, position + 1)

\* the lines between `output = stdout.strip()` and `stats.append(metrics)`
\* raise IndexError: no second line, a -class header too short for the
\* rewrite, or a mapped title beyond the end of the values row
ParseRaises(option, stdout) ==
    LET lines == OutputLines(stdout)
    IN  IF IndexError(lines, 1) THEN TRUE
        ELSE IF option = "-class"
                /\ (IndexError(At(lines, 0), 1) \/ IndexError(At(lines, 0), 3))
        THEN TRUE
        ELSE LET ttl == RewriteTitles(option, At(lines, 0))
             IN  \E position \in 0 .. (Len(ttl) - 1) :
                     /\ At(ttl, position) \in DOMAIN MetricMapsOf(option)
                     /\ IndexError(At(lines, 1), position)

\* the metrics list built for one option
Metrics(option, tuple, ttl, vals) ==
    ContextTokens(option, tuple) \o MappedTokens(option, ttl, vals, 0)

(***************************************************************************)
(* The pass.                                                               *)
(***************************************************************************)
Init ==
    /\ pc = "start"
    /\ pids = None
    /\ pidIdx = 0
    /\ pid_cmd = <<>>
    /\ pcIdx = 0
    /\ optIdx = 0
    /\ jstat_executable = NoneStr
    /\ stats = None
    /\ metIdx = 0
    /\ output = <<>>
    /\ titles = <<>>
    /\ values_all = <<>>
    /\ raised = ""
    /\ history = <<>>

\* an uncaught exception leaves run()
Raise(exception) ==
    /\ pc' = "raised"
    /\ raised' = exception

\* what _get_java_pids() does and returns once pgrep is located
GetJavaPidsWith(pgrep_executable, r) ==
    [events |-> <<PopenEvt(ShlexSplit(<<pgrep_executable, "java">>), <<>>, TRUE, "")>>
                 \o StderrLog(r.stderr),
     result |-> Some(StripSplit(r.stdout, ""))]

\* run() up to `if pids:`, pgrep located
GetJavaPids ==
    /\ pc = "start"
    /\ \E w \in WhichResults("pgrep"), r \in PgrepResults :
        /\ TruthyStr(w)
        /\ LET got == GetJavaPidsWith(w.val, r)
           IN  /\ history' = history \o got.events
               /\ pids' = got.result
               /\ IF TruthySeq(got.result)
                  THEN pc' = "inspect" /\ pidIdx' = 0
                  ELSE pc' = "done" /\ pidIdx' = pidIdx
    /\ UNCHANGED <<pid_cmd, pcIdx, optIdx, jstat_executable, stats, metIdx,
                   output, titles, values_all, raised>>

\* GetJavaPidsWithout with a fault: the missing tool is reported, and the
\* empty capture is parsed all the same
GetJavaPidsWithoutParsesAnyway ==
    [events |-> <<LogEvt("ERROR", "failed to retrieve pgrep executable location", <<>>)>>,
     result |-> Some(StripSplit(<<>>, ""))]

\* what _get_java_pids() does and returns when pgrep is not located
GetJavaPidsWithout ==
    [events |-> <<LogEvt("ERROR", "failed to retrieve pgrep executable location", <<>>)>>,
     result |-> None]

\* run() up to `if pids:`, pgrep not located: _get_java_pids() logs an error
\* and returns None, and run() has nothing to do
GetJavaPidsNoPgrep ==
    /\ pc = "start"
    /\ \E w \in WhichResults("pgrep") :
        /\ ~TruthyStr(w)
        /\ LET got == GetJavaPidsWithout
           IN  /\ history' = history \o got.events
               /\ pids' = got.result
               /\ IF TruthySeq(got.result)
                  THEN pc' = "inspect" /\ pidIdx' = 0
                  ELSE pc' = "done" /\ pidIdx' = pidIdx
    /\ UNCHANGED <<pid_cmd, pcIdx, optIdx, jstat_executable, stats, metIdx,
                   output, titles, values_all, raised>>

\* the warning of run() for a PID without an item
NoItemWarning(pid) ==
    LogEvt("WARNING",
           "application=jstatmon environment=" \o environment
             \o " msg=Failed to find command / user for PID " \o pid, <<>>)

\* after the last PID the loop over pid_cmd starts
AfterInspect(i) ==
    IF i >= Len(pids.val) THEN pc' = "details" /\ pcIdx' = 0
    ELSE pc' = "inspect" /\ pcIdx' = pcIdx

\* what _pid_to_command(pid) does and returns once ps is located
PidToCommandWith(ps_executable, pid, r) ==
    [events |-> <<PopenEvt(ShlexSplit(<<ps_executable, "-p", pid, "-o", "command=">>),
                           <<>>, TRUE, "")>>
                 \o StderrLog(r.stderr)
                 \o <<PopenEvt(ShlexSplit(<<ps_executable, "-p", pid, "-o", "user=">>),
                               <<>>, TRUE, "")>>
                 \o StderrLog(r.stderr),
     result |-> Some(<<pid, r.command, r.user>>)]

\* one turn of `for pid in pids`, ps located
PidToCommand ==
    /\ pc = "inspect"
    /\ pidIdx < Len(pids.val)
    /\ \E w \in WhichResults("ps"), r \in PsResults(At(pids.val, pidIdx)) :
        /\ TruthyStr(w)
        /\ LET pid == At(pids.val, pidIdx)
               got == PidToCommandWith(w.val, pid, r)
           IN  IF TruthySeq(got.result)
               THEN /\ pid_cmd' = Append(pid_cmd, got.result.val)
                    /\ history' = history \o got.events
               ELSE /\ pid_cmd' = pid_cmd
                    /\ history' = history \o got.events \o <<NoItemWarning(pid)>>
    /\ pidIdx' = pidIdx + 1
    /\ AfterInspect(pidIdx + 1)
    /\ UNCHANGED <<pids, optIdx, jstat_executable, stats, metIdx, output,
                   titles, values_all, raised>>

\* one turn of `for pid in pids`, ps not located: _pid_to_command() logs an
\* error and returns None, run() warns and goes on
PidToCommandNoPs ==
    /\ pc = "inspect"
    /\ pidIdx < Len(pids.val)
    /\ \E w \in WhichResults("ps") :
        /\ ~TruthyStr(w)
        /\ history' = history \o
             <<LogEvt("ERROR",
                      "application=jstatmon environment=" \o environment
                        \o " msg=failed to find ps executable", <<>>),
               NoItemWarning(At(pids.val, pidIdx))>>
    /\ pidIdx' = pidIdx + 1
    /\ AfterInspect(pidIdx + 1)
    /\ UNCHANGED <<pids, pid_cmd, optIdx, jstat_executable, stats, metIdx,
                   output, titles, values_all, raised>>

\* one turn of `for pc in pid_cmd` up to the option loop, jstat located
JstatDetailsStart ==
    /\ pc = "details"
    /\ pcIdx < Len(pid_cmd)
    /\ \E w \in WhichResults("jstat") :
        /\ TruthyStr(w)
        /\ jstat_executable' = w
    /\ stats' = Some(<<>>)
    /\ optIdx' = 0
    /\ pc' = "option"
    /\ UNCHANGED <<pids, pidIdx, pid_cmd, pcIdx, metIdx, output, titles,
                   values_all, raised, history>>

\* one turn of `for pc in pid_cmd`, jstat not located: _jstat_details() logs
\* an error and returns None, and `for metric in metrics` raises TypeError
JstatDetailsNoJstat ==
    /\ pc = "details"
    /\ pcIdx < Len(pid_cmd)
    /\ \E w \in WhichResults("jstat") :
        /\ ~TruthyStr(w)
        /\ jstat_executable' = w
    /\ history' = history \o
         <<LogEvt("ERROR",
                  "application=jstatmon environment=" \o environment
                    \o " msg=failed to find jstat executable", <<>>)>>
    /\ stats' = None
    /\ Raise("TypeError")
    /\ UNCHANGED <<pids, pidIdx, pid_cmd, pcIdx, optIdx, metIdx, output,
                   titles, values_all>>

\* the process and the option _jstat_details() is working on
CurTuple == At(pid_cmd, pcIdx)
CurOption == At(Options, optIdx)
CurArgv ==
    ShlexSplit(<<jstat_executable.val, CurOption, At(CurTuple, 0)>>)

InOptionLoop ==
    /\ pc = "option"
    /\ optIdx < Len(Options)

\* one turn of the option loop: getpwnam(user) raises KeyError
JstatOptionNoUser ==
    /\ InOptionLoop
    /\ GetpwnamRaises(At(CurTuple, 2))
    /\ Raise("KeyError")
    /\ UNCHANGED <<pids, pidIdx, pid_cmd, pcIdx, optIdx, jstat_executable,
                   stats, metIdx, output, titles, values_all, history>>

\* one turn of the option loop: a call of the preexec_fn fails in the child
\* (the kernel refuses the change of identity), jstat is not executed and
\* Popen raises SubprocessError
JstatOptionDemoteFails ==
    /\ InOptionLoop
    /\ ~GetpwnamRaises(At(CurTuple, 2))
    /\ LET record == Getpwnam(At(CurTuple, 2))
           calls == Demote(record.pw_uid, record.pw_gid)
       IN  \E failing \in 1 .. Len(calls) :
               history' = Append(history,
                   PopenEvt(CurArgv, SubSeq(calls, 1, failing), FALSE,
                            At(CurTuple, 2)))
    /\ Raise("SubprocessError")
    /\ UNCHANGED <<pids, pidIdx, pid_cmd, pcIdx, optIdx, jstat_executable,
                   stats, metIdx, output, titles, values_all>>

\* one turn of the option loop: jstat ran as the owner, and the parsing of
\* what it printed raises IndexError
JstatOptionParseFails ==
    /\ InOptionLoop
    /\ ~GetpwnamRaises(At(CurTuple, 2))
    /\ LET record == Getpwnam(At(CurTuple, 2))
       IN  \E r \in JstatResults(CurOption) :
               /\ ParseRaises(CurOption, r.stdout)
               /\ history' = history
                    \o <<PopenEvt(CurArgv, Demote(record.pw_uid, record.pw_gid),
                                  TRUE, At(CurTuple, 2))>>
                    \o StderrLog(r.stderr)
               /\ output' = OutputLines(r.stdout)
    /\ Raise("IndexError")
    /\ UNCHANGED <<pids, pidIdx, pid_cmd, pcIdx, optIdx, jstat_executable,
                   stats, metIdx, titles, values_all>>

\* one turn of the option loop: jstat ran as the owner and its output is
\* mapped to a metrics list, which is appended to stats
JstatOption ==
    /\ InOptionLoop
    /\ ~GetpwnamRaises(At(CurTuple, 2))
    /\ LET record == Getpwnam(At(CurTuple, 2))
       IN  \E r \in JstatResults(CurOption) :
               /\ ~ParseRaises(CurOption, r.stdout)
               /\ LET lines == OutputLines(r.stdout)
                      ttl == RewriteTitles(CurOption, At(lines, 0))
                  IN  /\ output' = lines
                      /\ values_all' = At(lines, 1)
                      /\ titles' = ttl
                      /\ stats' = Some(Append(stats.val,
                             Metrics(CurOption, CurTuple, ttl, At(lines, 1))))
                      /\ history' = history
                           \o <<PopenEvt(CurArgv,
                                         Demote(record.pw_uid, record.pw_gid),
                                         TRUE, At(CurTuple, 2))>>
                           \o StderrLog(r.stderr)
                           \o UnmappedWarnings(CurOption, ttl, 0)
    /\ optIdx' = optIdx + 1
    /\ UNCHANGED <<pc, pids, pidIdx, pid_cmd, pcIdx, jstat_executable, metIdx,
                   raised>>

\* JstatDetailsReturn with a fault: the lists returned are dropped, run()
\* goes on to the next process
JstatDetailsReturnDropped ==
    /\ pc = "option"
    /\ optIdx >= Len(Options)
    /\ pc' = "details"
    /\ pcIdx' = pcIdx + 1
    /\ UNCHANGED <<pids, pidIdx, pid_cmd, optIdx, jstat_executable, stats,
                   metIdx, output, titles, values_all, raised, history>>

\* _jstat_details() returns stats, and `for metric in metrics` starts
JstatDetailsReturn ==
    /\ pc = "option"
    /\ optIdx >= Len(Options)
    /\ pc' = "emit"
    /\ metIdx' = 0
    /\ UNCHANGED <<pids, pidIdx, pid_cmd, pcIdx, optIdx, jstat_executable,
                   stats, output, titles, values_all, raised, history>>

\* one turn of `for metric in metrics`: _interpret_jstat(metric) logs the
\* tokens joined by blanks as one info record
InterpretJstat ==
    /\ pc = "emit"
    /\ metIdx < Len(stats.val)
    /\ history' = Append(history,
           LogEvt("INFO", Join(" ", At(stats.val, metIdx)), At(stats.val, metIdx)))
    /\ metIdx' = metIdx + 1
    /\ UNCHANGED <<pc, pids, pidIdx, pid_cmd, pcIdx, optIdx, jstat_executable,
                   stats, output, titles, values_all, raised>>

\* `for metric in metrics` is over: the next turn of `for pc in pid_cmd`
NextProcess ==
    /\ pc = "emit"
    /\ metIdx >= Len(stats.val)
    /\ pcIdx' = pcIdx + 1
    /\ pc' = "details"
    /\ UNCHANGED <<pids, pidIdx, pid_cmd, optIdx, jstat_executable, stats,
                   metIdx, output, titles, values_all, raised, history>>

\* `for pc in pid_cmd` is over: run() returns
RunReturn ==
    /\ pc = "details"
    /\ pcIdx >= Len(pid_cmd)
    /\ pc' = "done"
    /\ UNCHANGED <<pids, pidIdx, pid_cmd, pcIdx, optIdx, jstat_executable,
                   stats, metIdx, output, titles, values_all, raised, history>>

Next ==
    \/ GetJavaPids
    \/ GetJavaPidsNoPgrep
    \/ PidToCommand
    \/ PidToCommandNoPs
    \/ JstatDetailsStart
    \/ JstatDetailsNoJstat
    \/ JstatOptionNoUser
    \/ JstatOptionDemoteFails
    \/ JstatOptionParseFails
    \/ JstatOption
    \/ JstatDetailsReturn
    \/ InterpretJstat
    \/ NextProcess
    \/ RunReturn

Spec == Init /\ [][Next]_vars

(***************************************************************************)
(* Reading the history.                                                    *)
(***************************************************************************)
IsPopen(e) == e.kind = "popen"
IsJstatRun(e) == IsPopen(e) /\ e.argv[1] = "/usr/bin/jstat"
IsPsRun(e) == IsPopen(e) /\ e.argv[1] = "/usr/bin/ps"
IsError(e) == e.kind = "log" /\ e.level = "ERROR"
IsMetricLine(e) == e.kind = "log" /\ e.level = "INFO"

HistoryIdx == 1 .. Len(history)
HowMany(P(_)) == Cardinality({i \in HistoryIdx : P(history[i])})

\* run() is working on a process of pid_cmd (or was, when it raised)
OnProcess == pc \in {"option", "emit", "raised"} /\ pcIdx < Len(pid_cmd)

\* the error _jstat_details() logs when jstat is not located
JstatMissingLogged ==
    \E i \in HistoryIdx :
        /\ IsError(history[i])
        /\ history[i].msg = "application=jstatmon environment=prod msg=failed to find jstat executable"

\* a tuple of a process that exited before ps looked at it
Evaporated(tuple) == tuple[1] # "" /\ tuple[2] = "" /\ tuple[3] = ""

(***************************************************************************)
(* C1.  If jstat cannot be located when _jstat_details is called for a     *)
(* process, the attempt is logged and run() completes without raising: in  *)
(* no state has run() been left by an exception after the missing jstat    *)
(* was logged.                                                             *)
(***************************************************************************)
C1_MissingJstatDoesNotRaise ==
    (JstatMissingLogged /\ pcIdx < Len(pid_cmd)
        /\ ~Evaporated(CurTuple) /\ ~GetpwnamRaises(At(CurTuple, 2)))
    => pc # "raised"

(***************************************************************************)
(* C2.  If the owner of a process cannot be resolved to a uid/gid, only    *)
(* that process is given up: run() is never left by an exception while it  *)
(* works, jstat located, on a process whose owner has no account.          *)
(***************************************************************************)
C2_UnresolvedOwnerDoesNotRaise ==
    (OnProcess /\ ~jstat_executable.none /\ At(CurTuple, 2) # ""
        /\ GetpwnamRaises(At(CurTuple, 2)))
    => pc # "raised"

(***************************************************************************)
(* C3.  If pgrep cannot be located, run() returns without raising, having  *)
(* logged exactly one error, emitted no metric line and started no         *)
(* subprocess (no inspection by ps, no jstat).                             *)
(***************************************************************************)
\* the error _get_java_pids() logs when pgrep is not located
PgrepMissing ==
    \E i \in HistoryIdx :
        /\ IsError(history[i])
        /\ history[i].msg = "failed to retrieve pgrep executable location"

C3_NoPgrepNothingToDo ==
    PgrepMissing =>
        /\ pc = "done"
        /\ raised = ""
        /\ HowMany(IsError) = 1
        /\ HowMany(IsMetricLine) = 0
        /\ HowMany(IsPopen) = 0
        /\ pid_cmd = <<>>

C3_Witness == PgrepMissing /\ pc = "done"

(***************************************************************************)
(* C4.  A process that exited between pgrep and ps yields the tuple        *)
(* (pid, '', ''), and the later stages tolerate it: run() is never left by *)
(* an exception while it works, jstat located, on such a tuple.            *)
(***************************************************************************)
C4_EvaporatedProcessIsTolerated ==
    (OnProcess /\ ~jstat_executable.none /\ Evaporated(CurTuple))
    => pc # "raised"

(***************************************************************************)
(* C5.  _get_java_pids returns one PID token per non-empty line of pgrep's *)
(* output and no other token: the list it returns holds no empty token, so *)
(* when pgrep prints nothing no process is inspected.                      *)
(***************************************************************************)
C5_OnlyNonEmptyLinesArePids ==
    /\ ~pids.none => \A i \in 1 .. Len(pids.val) : pids.val[i] # ""
    /\ HowMany(IsPsRun) > 0 => \E i \in 1 .. Len(pids.val) : pids.val[i] # ""

(***************************************************************************)
(* C6.  A jstat run without a usable header row and values row stays       *)
(* local to its category or process: run() is never left by the IndexError *)
(* of the parsing steps.                                                   *)
(***************************************************************************)
C6_UnusableJstatOutputDoesNotRaise == raised # "IndexError"

(***************************************************************************)
(* C7.  Every jstat subprocess is started for the owner of its process     *)
(* with a pre-exec step that calls setgid(owner's gid) first and           *)
(* setuid(owner's uid) second; jstat is executed only after both calls,    *)
(* and the calls made are never anything but a beginning of that list.     *)
(***************************************************************************)
OwnerOfRun(e) ==
    \E i \in 1 .. Len(pid_cmd) :
        /\ e.argv = <<"/usr/bin/jstat", e.argv[2], pid_cmd[i][1]>>
        /\ e.user = pid_cmd[i][3]

C7_GroupBeforeUser ==
    \A i \in HistoryIdx :
        IsJstatRun(history[i]) =>
            LET e == history[i]
                gid == Passwd[e.user].pw_gid
                uid == Passwd[e.user].pw_uid
            IN  /\ OwnerOfRun(e)
                /\ e.calls \in { << <<"setgid", gid>> >>,
                                 << <<"setgid", gid>>, <<"setuid", uid>> >> }
                /\ e.executed => e.calls = << <<"setgid", gid>>, <<"setuid", uid>> >>

C7_Witness ==
    \E i \in HistoryIdx : IsJstatRun(history[i]) /\ history[i].executed

(***************************************************************************)
(* The metrics list last appended to stats, and what it was built from.    *)
(***************************************************************************)
Built == pc = "option" /\ optIdx >= 1
LastOption == Options[optIdx]
LastMetrics == stats.val[optIdx]
HeaderRow == output[1]
ValuesRow2 == output[2]
EqualRows == Len(output) >= 2 /\ Len(output[1]) = Len(output[2])

CategoryName(option) ==
    CASE option = "-gc" -> "gc"
      [] option = "-gccapacity" -> "gccapacity"
      [] option = "-gcnew" -> "gcnew"
      [] option = "-compiler" -> "compiler"
      [] option = "-class" -> "class"

SixContextTokens(option, tuple) ==
    <<"application=jstatmon", "environment=prod", "option=" \o option,
      "user=" \o tuple[3], "pid=" \o tuple[1], "command=" \o tuple[2]>>

\* the positions of a header row whose token is in the option's mapping,
\* in increasing order
MappedPositions(option, header) ==
    Ascending({i \in 1 .. Len(header) : header[i] \in DOMAIN MetricMapsOf(option)})

\* one token per mapped position, carrying the value at that position
TokensOfMappedPositions(option, header, values) ==
    LET at == MappedPositions(option, header)
    IN  [k \in 1 .. Len(at) |->
            CategoryName(option) \o "_" \o MetricMapsOf(option)[header[at[k]]]
                \o "=" \o values[at[k]]]

\* a -class header row with its second and fourth token replaced
ClassHeaderAsLookedUp(option, header) ==
    [i \in 1 .. Len(header) |->
        IF option = "-class" /\ i = 2 THEN "Bytes_column2"
        ELSE IF option = "-class" /\ i = 4 THEN "Bytes_column4"
        ELSE header[i]]

C9_ClassBytesColumns ==
    Built =>
        IF LastOption = "-class"
        THEN /\ Len(titles) = Len(HeaderRow)
             /\ titles[1 + 1] = "Bytes_column2"
             /\ titles[3 + 1] = "Bytes_column4"
             /\ \A i \in 1 .. Len(titles) : i \notin {1 + 1, 3 + 1} => titles[i] = HeaderRow[i]
             /\ {"Bytes_column2", "Bytes_column4"} \subseteq DOMAIN metric_maps_class
             /\ HeaderRow = <<"Loaded", "Bytes", "Unloaded", "Bytes", "Time">> =>
                    /\ Len(LastMetrics) = 6 + 5
                    /\ LastMetrics[6 + 2] = "class_number_of_kBs_loaded=" \o ValuesRow2[1 + 1]
                    /\ LastMetrics[6 + 4] = "class_number_of_kBs_unloaded=" \o ValuesRow2[3 + 1]
        ELSE titles = HeaderRow

C9_Witness ==
    /\ Built
    /\ LastOption = "-class"
    /\ HeaderRow = <<"Loaded", "Bytes", "Unloaded", "Bytes", "Time">>

(***************************************************************************)
(* Runs of jstat and metric lines of a process and a category.             *)
(***************************************************************************)
JstatRunFor(e, pid, option) ==
    IsJstatRun(e) /\ e.argv = <<"/usr/bin/jstat", option, pid>>
LineFor(e, pid, option) ==
    /\ IsMetricLine(e)
    /\ e.tokens[3] = "option=" \o option
    /\ e.tokens[5] = "pid=" \o pid
RanBefore(j, pid, option) ==
    \E i \in 1 .. (j - 1) : JstatRunFor(history[i], pid, option) /\ history[i].executed
LoggedBefore(j, pid, option) ==
    \E i \in 1 .. (j - 1) : LineFor(history[i], pid, option)

MetricLines == SelectSeq(history, IsMetricLine)
FiveTags == <<"-gc", "-gccapacity", "-gcnew", "-compiler", "-class">>

\* run() warned that _pid_to_command() gave nothing for this PID
InspectionFailed(pid) ==
    \E i \in HistoryIdx :
        /\ history[i].kind = "log" /\ history[i].level = "WARNING"
        /\ history[i].msg = "application=jstatmon environment=prod msg=Failed to find command / user for PID " \o pid

C11_FiveLinesPerProcessInOrder ==
    /\ Len(MetricLines) = 5 * pcIdx + (IF pc = "emit" THEN metIdx ELSE 0)
    /\ \A i \in 1 .. Len(MetricLines) :
           LET n == ((i - 1) \div 5) + 1
               k == ((i - 1) % 5) + 1
           IN  /\ n <= Len(pid_cmd)
               /\ MetricLines[i].tokens[3] = "option=" \o FiveTags[k]
               /\ MetricLines[i].tokens[5] = "pid=" \o pid_cmd[n][1]
               /\ MetricLines[i].tokens[3] # "option=-gccause"
    /\ \A n \in 1 .. Len(pid_cmd) :
           (n <= pcIdx \/ (n = pcIdx + 1 /\ pc = "emit" /\ metIdx = 5)) =>
               Cardinality({i \in 1 .. Len(MetricLines) :
                   MetricLines[i].tokens[5] = "pid=" \o pid_cmd[n][1]}) = 5
    /\ \A j \in 1 .. Len(pids.val) :
           InspectionFailed(pids.val[j]) =>
               /\ \A n \in 1 .. Len(pid_cmd) : pid_cmd[n][1] # pids.val[j]
               /\ \A i \in HistoryIdx :
                      /\ IsJstatRun(history[i]) =>
                             history[i].argv # <<"/usr/bin/jstat", history[i].argv[2], pids.val[j]>>
                      /\ IsMetricLine(history[i]) =>
                             history[i].tokens[5] # "pid=" \o pids.val[j]

C11_Witness ==
    /\ pc = "done"
    /\ Len(pid_cmd) = 2
    /\ pcIdx = 2
    /\ Len(MetricLines) = 10

\* a PID whose inspection failed, beside a process that got its five lines
C11_WitnessInspectionFailed ==
    /\ pc = "done"
    /\ pcIdx = 1
    /\ \E j \in 1 .. Len(pids.val) : InspectionFailed(pids.val[j])

====
